---- MODULE Spec2Model ----
(***************************************************************************)
(* Model of the link-app data-access layer (src/src/app/layout.js) and of  *)
(* the public profile page (src/src/app/user/[username]/page.tsx).         *)
(*                                                                         *)
(* The remote document store is the variable users.  Spec makes the calls  *)
(* on a user's links collection one at a time, each call one action;       *)
(* SpecLinks restricts them to append and delete, SpecLayer adds the other *)
(* write functions of the layer.  SpecConc splits the read-modify-write    *)
(* mutations into their read and write steps for two concurrent callers,   *)
(* SpecPage is the life cycle of the public page and SpecSub applies       *)
(* checkSubscriptionStatus to stored subscription records.                 *)
(***************************************************************************)
EXTENDS Integers, Sequences, FiniteSets, TLC

VARIABLES
    users,      \* the 'users' collection: uid -> document
    last,       \* the last completed call of the data-access layer
    tab,        \* SpecConc: the call in progress of each concurrent caller
    wrote,      \* SpecConc: the callers in the order their writes landed
    page,       \* SpecPage: state of the UserPage component
    subs,       \* SpecSub: customers/{uid}/subscriptions, in snapshot order
    subResult   \* SpecSub: outcome of checkSubscriptionStatus

vars == <<users, last, tab, wrote, page, subs, subResult>>

---------------------------------------------------------------------------
(* Bounds of the model *)

\* longest links collection a call may produce
MaxLinks == 2
\* most subscription records of one customer
MaxSubs == 2

---------------------------------------------------------------------------
(* Input domains *)

UIDs == {"u1"}
Titles == {"t1", "t2"}
URLs == {"a"}
Usernames == {"alice", "bob"}
\* a falsy string argument ('' or undefined)
Missing == ""
\* the value undefined inside a metadata object
Undefined == "undefined"
LinkIds == 1..MaxLinks

\* urlMetaData arguments: undefined, or an object with one defined and one
\* undefined metadata value
NoMeta == [present |-> FALSE, mediaType |-> "", metadata |-> {}]
SomeMeta == [present |-> TRUE, mediaType |-> "link",
             metadata |-> {<<"title", "T">>, <<"image", Undefined>>}]
MetaInputs == {NoMeta, SomeMeta}

---------------------------------------------------------------------------
(* The document store *)

\* a user document that does not exist
NoDoc == [exists |-> FALSE, hasLinks |-> FALSE, links |-> <<>>, username |-> ""]

\* userData.links || []
LinksOf(doc) == IF doc.exists /\ doc.hasLinks THEN doc.links ELSE <<>>

\* setDoc(ref, { links }, { merge: true }): creates the document if needed
SetDocLinks(doc, links) ==
    [doc EXCEPT !.exists = TRUE, !.hasLinks = TRUE, !.links = links]

\* a write that appends to the stored array instead of replacing it
UpdateDocLinksAppend(doc, links) ==
    [doc EXCEPT !.hasLinks = TRUE, !.links = doc.links \o links]

\* updateDoc(ref, { links }): overwrites the links field of an existing document
UpdateDocLinks(doc, links) ==
    [doc EXCEPT !.hasLinks = TRUE, !.links = links]

\* setDoc(ref, { username }, { merge: true })
SetDocUsername(doc, username) ==
    [doc EXCEPT !.exists = TRUE, !.username = username]

\* setDoc(ref, data, { merge: true }) for the partial documents of UserDataInputs
SetDocMerge(doc, data) ==
    [exists |-> TRUE,
     hasLinks |-> doc.hasLinks \/ data.hasLinks,
     links |-> IF data.hasLinks THEN data.links ELSE doc.links,
     username |-> IF data.hasUsername THEN data.username ELSE doc.username]

\* arrayUnion(e): appends e unless an equal element is already in the array
ArrayUnion(arr, e) ==
    IF \E i \in 1..Len(arr) : arr[i] = e THEN arr ELSE Append(arr, e)

\* the partial documents passed to addUserData
UserDataInputs ==
    {[hasUsername |-> TRUE, username |-> n, hasLinks |-> FALSE, links |-> <<>>] :
        n \in Usernames}
    \cup {[hasUsername |-> FALSE, username |-> "", hasLinks |-> TRUE, links |-> <<>>]}

---------------------------------------------------------------------------
(* addLinkToFirestore *)

\* a validation that forgets urlMetaData
RequiredFieldsPresentNoMeta(title, link, userId, urlMetaData) ==
    ~(title = Missing \/ link = Missing \/ userId = Missing)

\* the guard of the validation throw
RequiredFieldsPresent(title, link, userId, urlMetaData) ==
    ~(title = Missing \/ link = Missing \/ userId = Missing \/ ~urlMetaData.present)

\* currentLinks after the read
CurrentLinks(doc) == IF doc.exists THEN LinksOf(doc) ELSE <<>>

\* an id that is the count instead of count + 1
NewIdNoIncrement(doc) == IF doc.exists THEN Len(CurrentLinks(doc)) ELSE 1

\* newId after the read
NewId(doc) == IF doc.exists THEN Len(CurrentLinks(doc)) + 1 ELSE 1

\* metadata with its undefined values stripped
ValidatedUrlMetaData(urlMetaData) ==
    [mediaType |-> urlMetaData.mediaType,
     metadata |-> {p \in urlMetaData.metadata : p[2] # Undefined}]

NewLink(newId, title, link, urlMetaData) ==
    [id |-> newId, title |-> title, link |-> link, active |-> FALSE,
     metadata |-> ValidatedUrlMetaData(urlMetaData),
     layout |-> "classic", linkType |-> "external"]

\* the document after the write of newLink
AddWrite(doc, newLink) ==
    IF Len(CurrentLinks(doc)) = 0
    THEN SetDocLinks(doc, <<newLink>>)
    ELSE UpdateDocLinks(doc, ArrayUnion(doc.links, newLink))

\* updatedLinks, the collection the call returns
AddReturn(currentLinks, newLink) ==
    IF Len(currentLinks) = 0 THEN <<newLink>> ELSE Append(currentLinks, newLink)

---------------------------------------------------------------------------
(* The read-modify-write mutations *)

\* a map that toggles the flag instead of setting it
SetActiveToggle(links, linkId, active) ==
    [i \in 1..Len(links) |->
        IF links[i].id = linkId THEN [links[i] EXCEPT !.active = ~links[i].active]
        ELSE links[i]]

\* links.map of updateLinkActiveState
SetActiveMap(links, linkId, active) ==
    [i \in 1..Len(links) |->
        IF links[i].id = linkId THEN [links[i] EXCEPT !.active = active]
        ELSE links[i]]

\* links.map of updateLinkData, for the fields title and link
SetFieldMap(links, linkId, field, value) ==
    [i \in 1..Len(links) |->
        IF links[i].id = linkId THEN [links[i] EXCEPT ![field] = value]
        ELSE links[i]]

\* a delete by position in the collection instead of by id
DeleteAtIndex(links, linkId) ==
    [i \in 1..(Len(links) - (IF linkId <= Len(links) THEN 1 ELSE 0)) |->
        IF i < linkId THEN links[i] ELSE links[i + 1]]

\* links.filter of deleteLinkById
DeleteFilter(links, linkId) ==
    SelectSeq(links, LAMBDA l : l.id # linkId)

\* the (field, value) arguments of updateLinkData
FieldInputs ==
    {<<"title", t>> : t \in Titles} \cup {<<"link", l>> : l \in URLs}

---------------------------------------------------------------------------
(* Record of a completed call *)

NoCall ==
    [op |-> "none", uid |-> "", valid |-> FALSE, linkId |-> 0, arg |-> "",
     outcome |-> "none", error |-> "", ret |-> <<>>,
     didRead |-> FALSE, didWrite |-> FALSE, writeFailed |-> FALSE,
     repeat |-> FALSE]

\* whether the call (op, linkId, arg) repeats the previous call, which returned
Repeats(op, uid, linkId, arg) ==
    /\ last.op = op
    /\ last.uid = uid
    /\ last.linkId = linkId
    /\ last.arg = arg
    /\ last.outcome = "returned"

Call(op, uid, linkId, arg) ==
    [NoCall EXCEPT !.op = op, !.uid = uid, !.linkId = linkId, !.arg = arg,
                   !.repeat = Repeats(op, uid, linkId, arg)]

Returned(c, ret) ==
    [c EXCEPT !.outcome = "returned", !.ret = ret,
              !.didRead = TRUE, !.didWrite = TRUE]

Threw(c, error) == [c EXCEPT !.outcome = "threw", !.error = error]

\* a rejected getDoc
ReadFailed(c) == [Threw(c, "getDoc failed") EXCEPT !.didRead = TRUE]

\* a rejected setDoc or updateDoc, rethrown
WriteFailed(c, error) ==
    [Threw(c, error) EXCEPT !.didWrite = TRUE, !.writeFailed = TRUE]

BoolStr(b) == IF b THEN "true" ELSE "false"

\* which remote operation of a call is rejected
Faults == {"none", "read", "write"}
WriteFaults == {"none", "write"}

---------------------------------------------------------------------------
(* The calls of the data-access layer, made one at a time *)

\* whether none of the four arguments of addLinkToFirestore is missing
AllPresent(title, link, userId, urlMetaData) ==
    /\ title \in Titles
    /\ link \in URLs
    /\ userId \in UIDs
    /\ urlMetaData.present

AddLinkToFirestore ==
    \E title \in Titles \cup {Missing}, link \in URLs \cup {Missing},
       userId \in UIDs \cup {Missing}, urlMetaData \in MetaInputs :
        LET c == [Call("addLinkToFirestore", userId, 0, "") EXCEPT
                     !.valid = AllPresent(title, link, userId, urlMetaData)]
        IN  IF ~RequiredFieldsPresent(title, link, userId, urlMetaData)
            THEN /\ last' = Threw(c, "Missing required fields")
                 /\ UNCHANGED <<users, tab, wrote, page, subs, subResult>>
            ELSE \E fault \in Faults :
                 LET doc == users[userId]
                     currentLinks == CurrentLinks(doc)
                     newLink == NewLink(NewId(doc), title, link, urlMetaData)
                 IN  /\ Len(currentLinks) < MaxLinks
                     /\ IF fault = "read"
                        THEN /\ last' = ReadFailed(c)
                             /\ UNCHANGED users
                        ELSE IF fault = "write"
                        THEN /\ last' = [WriteFailed(c, "write failed") EXCEPT
                                            !.didRead = TRUE]
                             /\ UNCHANGED users
                        ELSE /\ users' = [users EXCEPT
                                            ![userId] = AddWrite(doc, newLink)]
                             /\ last' = Returned(c,
                                            AddReturn(currentLinks, newLink))
                     /\ UNCHANGED <<tab, wrote, page, subs, subResult>>

\* the common shape of updateLinkActiveState, updateLinkData and
\* deleteLinkById: read, map or filter, write back, return the new collection
ReadModifyWrite(c, userId, updatedLinks, fault) ==
    LET doc == users[userId]
    IN  /\ IF fault = "read"
           THEN /\ last' = ReadFailed(c)
                /\ UNCHANGED users
           ELSE IF ~doc.exists
           THEN /\ last' = [Threw(c, "User document does not exist") EXCEPT
                               !.didRead = TRUE]
                /\ UNCHANGED users
           ELSE IF fault = "write"
           THEN /\ last' = [WriteFailed(c, "write failed") EXCEPT
                               !.didRead = TRUE]
                /\ UNCHANGED users
           ELSE /\ users' = [users EXCEPT
                               ![userId] = UpdateDocLinks(doc, updatedLinks)]
                /\ last' = Returned(c, updatedLinks)
        /\ UNCHANGED <<tab, wrote, page, subs, subResult>>

UpdateLinkActiveState ==
    \E userId \in UIDs, linkId \in LinkIds, active \in BOOLEAN,
       fault \in Faults :
        ReadModifyWrite(Call("updateLinkActiveState", userId, linkId, BoolStr(active)),
                        userId,
                        SetActiveMap(LinksOf(users[userId]), linkId, active),
                        fault)

UpdateLinkData ==
    \E userId \in UIDs, linkId \in LinkIds, fv \in FieldInputs,
       fault \in Faults :
        ReadModifyWrite(Call("updateLinkData", userId, linkId, fv[1]),
                        userId,
                        SetFieldMap(LinksOf(users[userId]), linkId, fv[1], fv[2]),
                        fault)

DeleteLinkById ==
    \E userId \in UIDs, linkId \in LinkIds, fault \in Faults :
        ReadModifyWrite(Call("deleteLinkById", userId, linkId, ""),
                        userId,
                        DeleteFilter(LinksOf(users[userId]), linkId),
                        fault)

\* the orderings of a collection, the sequences the editor passes to updateLinks
Reorderings(links) ==
    LET n == Len(links)
        bij == {f \in [1..n -> 1..n] : \A i, j \in 1..n : i # j => f[i] # f[j]}
    IN  {[i \in 1..n |-> links[f[i]]] : f \in bij}

UpdateLinks ==
    \E userId \in UIDs, fault \in WriteFaults :
        \E links \in Reorderings(LinksOf(users[userId])) :
            LET doc == users[userId]
                c == Call("updateLinks", userId, 0, "")
            IN  /\ IF fault = "write" \/ ~doc.exists
                   THEN /\ last' = WriteFailed(c, "write failed")
                        /\ UNCHANGED users
                   ELSE /\ users' = [users EXCEPT
                                       ![userId] = UpdateDocLinks(doc, links)]
                        /\ last' = [c EXCEPT !.outcome = "returned",
                                             !.didWrite = TRUE]
                /\ UNCHANGED <<tab, wrote, page, subs, subResult>>

AddUserData ==
    \E uid \in UIDs, data \in UserDataInputs, fault \in WriteFaults :
        LET c == Call("addUserData", uid, 0, "")
        IN  /\ IF fault = "write"
               THEN \* the catch block logs the error and falls through
                    /\ last' = [c EXCEPT !.outcome = "returned",
                                         !.didWrite = TRUE,
                                         !.writeFailed = TRUE]
                    /\ UNCHANGED users
               ELSE /\ users' = [users EXCEPT ![uid] = SetDocMerge(users[uid], data)]
                    /\ last' = [c EXCEPT !.outcome = "returned",
                                         !.didWrite = TRUE]
            /\ UNCHANGED <<tab, wrote, page, subs, subResult>>

UpdateUsername ==
    \E uid \in UIDs, username \in Usernames, fault \in WriteFaults :
        LET c == Call("updateUsername", uid, 0, "")
        IN  /\ IF fault = "write"
               THEN /\ last' = WriteFailed(c, "Username update failed")
                    /\ UNCHANGED users
               ELSE /\ users' = [users EXCEPT
                                   ![uid] = SetDocUsername(users[uid], username)]
                    /\ last' = [c EXCEPT !.outcome = "returned",
                                         !.didWrite = TRUE]
            /\ UNCHANGED <<tab, wrote, page, subs, subResult>>

---------------------------------------------------------------------------
(* Idle values of the state the sequential specifications do not use *)

Tabs == {1, 2}
IdleTab == [pc |-> "idle", op |-> "none", linkId |-> 0, active |-> FALSE,
            field |-> "", value |-> "", snap |-> <<>>, upd |-> <<>>,
            readAt |-> 0]
\* UserPage after useState: userData null, loading true; nothing fetched
IdlePage == [pc |-> "unmounted", username |-> "", loading |-> TRUE,
             hasUserData |-> FALSE, userData |-> NoDoc, notFoundCalls |-> 0,
             rejected |-> FALSE, status |-> "none", bodyNull |-> TRUE,
             body |-> NoDoc, view |-> "none"]

\* the user has no document yet, or has the document the sign-up flow
\* writes (a username, no links field)
Init ==
    /\ \E d \in {NoDoc} \cup {SetDocUsername(NoDoc, n) : n \in {"alice"}} :
            users = [u \in UIDs |-> d]
    /\ last = NoCall
    /\ tab = [t \in Tabs |-> IdleTab]
    /\ wrote = <<>>
    /\ page = IdlePage
    /\ subs = <<>>
    /\ subResult = "none"

\* the operations on the links collection
Next ==
    \/ AddLinkToFirestore
    \/ DeleteLinkById
    \/ UpdateLinkActiveState
    \/ UpdateLinkData
    \/ UpdateLinks

Spec == Init /\ [][Next]_vars

\* link append and delete only
NextLinks ==
    \/ AddLinkToFirestore
    \/ DeleteLinkById

SpecLinks == Init /\ [][NextLinks]_vars

\* every write operation of the layer
NextLayer ==
    \/ Next
    \/ AddUserData
    \/ UpdateUsername

SpecLayer == Init /\ [][NextLayer]_vars

---------------------------------------------------------------------------
(* Properties of the calls made one at a time *)

HasId(links, linkId) == \E i \in 1..Len(links) : links[i].id = linkId

\* C1: after any sequence of addLinkToFirestore and deleteLinkById calls made
\* one at a time, no two links of a user's stored collection have the same id.
C1_UniqueIds ==
    \A u \in UIDs :
        \A i, j \in 1..Len(LinksOf(users[u])) :
            i # j => LinksOf(users[u])[i].id # LinksOf(users[u])[j].id

\* C2: an addLinkToFirestore call with all four arguments present that returns,
\* returns the collection read at the start of the call followed by one new
\* entry, whose id is the previous count + 1 (1 when the document or its links
\* field does not exist) and whose active flag is false; such a call never
\* fails validation.
C2_AppendGrowsByOne ==
    [][(last'.op = "addLinkToFirestore" /\ last'.valid) =>
        LET before == LinksOf(users[last'.uid])
            ret == last'.ret
        IN  /\ last'.outcome = "threw" => last'.error # "Missing required fields"
            /\ last'.outcome = "returned" =>
                /\ Len(ret) = Len(before) + 1
                /\ SubSeq(ret, 1, Len(before)) = before
                /\ ret[Len(ret)].id = Len(before) + 1
                /\ ret[Len(ret)].active = FALSE
                /\ (~users[last'.uid].exists \/ ~users[last'.uid].hasLinks)
                        => ret[Len(ret)].id = 1]_vars

\* an append that returned a two-element collection: the previous count was 1
C2_Witness ==
    /\ last.op = "addLinkToFirestore"
    /\ last.valid
    /\ last.outcome = "returned"
    /\ Len(last.ret) = 2
    /\ last.ret[2].id = 2

\* C3: an addLinkToFirestore call with any of title, link, userId, urlMetaData
\* missing throws the validation error, reads and writes nothing, and leaves
\* the store as it was.
C3_MissingFieldRejected ==
    [][(last'.op = "addLinkToFirestore" /\ ~last'.valid) =>
        /\ last'.outcome = "threw"
        /\ last'.error = "Missing required fields"
        /\ ~last'.didRead
        /\ ~last'.didWrite
        /\ users' = users]_vars

\* a rejected append on a user who has links stored
C3_Witness ==
    /\ last.op = "addLinkToFirestore"
    /\ ~last.valid
    /\ last.outcome = "threw"
    /\ \E u \in UIDs : Len(LinksOf(users[u])) > 0

\* C4: for a user whose document exists, deleteLinkById with an id no stored
\* link has leaves the stored collection as it was and returns it; a second
\* delete of the same id right after a first one changes nothing and returns
\* what the first returned.
C4_DeleteAbsentIsNoOp ==
    [][/\ (/\ last'.op = "deleteLinkById"
           /\ last'.uid \in UIDs
           /\ users[last'.uid].exists
           /\ ~HasId(LinksOf(users[last'.uid]), last'.linkId))
          => /\ LinksOf(users'[last'.uid]) = LinksOf(users[last'.uid])
             /\ last'.outcome = "returned"
                    => last'.ret = LinksOf(users[last'.uid])
       /\ (/\ last.op = "deleteLinkById"
           /\ last.outcome = "returned"
           /\ last'.op = "deleteLinkById"
           /\ last'.outcome = "returned"
           /\ last'.uid = last.uid
           /\ last'.linkId = last.linkId)
          => /\ users' = users
             /\ last'.ret = last.ret]_vars

\* a repeated delete that returned a non-empty collection
C4_Witness ==
    /\ last.op = "deleteLinkById"
    /\ last.repeat
    /\ last.outcome = "returned"
    /\ Len(last.ret) > 0
    /\ ~HasId(last.ret, last.linkId)

\* C7: two updateLinkActiveState calls in a row with the same linkId and the
\* same active value: the second leaves the store as the first left it and
\* returns the same collection.
C7_SetActiveIdempotent ==
    [][(/\ last.op = "updateLinkActiveState"
        /\ last.outcome = "returned"
        /\ last'.op = "updateLinkActiveState"
        /\ last'.outcome = "returned"
        /\ last'.uid = last.uid
        /\ last'.linkId = last.linkId
        /\ last'.arg = last.arg)
       => /\ users' = users
          /\ last'.ret = last.ret]_vars

\* a repeated activation of a link that is stored
C7_Witness ==
    /\ last.op = "updateLinkActiveState"
    /\ last.repeat
    /\ last.outcome = "returned"
    /\ last.arg = "true"
    /\ \E i \in 1..Len(last.ret) :
            last.ret[i].id = last.linkId /\ last.ret[i].active

\* C8: the collection a successful addLinkToFirestore call returns is the
\* collection stored after the call.
C8_ReturnEqualsStored ==
    (last.op = "addLinkToFirestore" /\ last.outcome = "returned")
        => last.ret = LinksOf(users[last.uid])

WriteOps == {"addUserData", "updateUsername", "updateLinks",
             "updateLinkActiveState", "updateLinkData", "deleteLinkById"}

\* C9: a write operation whose remote write failed ends by throwing.
C9_WriteFailureThrows ==
    (last.op \in WriteOps /\ last.writeFailed) => last.outcome = "threw"

---------------------------------------------------------------------------
(* Two concurrent callers of the read-modify-write mutations.  Each caller  *)
(* makes one call on the document of TheUser; the getDoc and the updateDoc  *)
(* of a call are separate steps, so calls interleave at the await.          *)

TheUser == "u1"

\* the collections n successful appends produce on a new document
RECURSIVE Appended(_)
Appended(n) ==
    IF n = 0 THEN {<<>>}
    ELSE {AddReturn(ls, NewLink(Len(ls) + 1, t, l, SomeMeta)) :
            ls \in Appended(n - 1), t \in Titles, l \in URLs}

InitConc ==
    /\ \E n \in 1..MaxLinks : \E ls \in Appended(n) :
            users = [u \in UIDs |-> SetDocLinks(NoDoc, ls)]
    /\ last = NoCall
    /\ tab = [t \in Tabs |-> IdleTab]
    /\ wrote = <<>>
    /\ page = IdlePage
    /\ subs = <<>>
    /\ subResult = "none"

\* getDoc and the map or filter of a call: the caller now holds updatedLinks
TabRead(t, call, updatedLinks, fault) ==
    LET doc == users[TheUser]
    IN  /\ tab[t].pc = "idle"
        /\ tab' = [tab EXCEPT ![t] =
                IF fault = "read" \/ ~doc.exists
                THEN [call EXCEPT !.pc = "threw"]
                ELSE [call EXCEPT !.pc = "read", !.snap = LinksOf(doc),
                                  !.upd = updatedLinks,
                                  !.readAt = Len(wrote)]]
        /\ UNCHANGED <<users, last, wrote, page, subs, subResult>>

TabUpdateLinkActiveState(t) ==
    \E linkId \in LinkIds, active \in BOOLEAN, fault \in {"none", "read"} :
        TabRead(t,
                [IdleTab EXCEPT !.op = "updateLinkActiveState",
                                !.linkId = linkId, !.active = active],
                SetActiveMap(LinksOf(users[TheUser]), linkId, active),
                fault)

TabUpdateLinkData(t) ==
    \E linkId \in LinkIds, fv \in FieldInputs, fault \in {"none", "read"} :
        TabRead(t,
                [IdleTab EXCEPT !.op = "updateLinkData", !.linkId = linkId,
                                !.field = fv[1], !.value = fv[2]],
                SetFieldMap(LinksOf(users[TheUser]), linkId, fv[1], fv[2]),
                fault)

TabDeleteLinkById(t) ==
    \E linkId \in LinkIds, fault \in {"none", "read"} :
        TabRead(t,
                [IdleTab EXCEPT !.op = "deleteLinkById", !.linkId = linkId],
                DeleteFilter(LinksOf(users[TheUser]), linkId),
                fault)

\* updateDoc(userRef, { links: updatedLinks }) and the return
TabWrite(t) ==
    \E fault \in WriteFaults :
        /\ tab[t].pc = "read"
        /\ IF fault = "write"
           THEN /\ tab' = [tab EXCEPT ![t].pc = "threw"]
                /\ UNCHANGED <<users, wrote>>
           ELSE /\ users' = [users EXCEPT ![TheUser] =
                                UpdateDocLinks(users[TheUser], tab[t].upd)]
                /\ wrote' = Append(wrote, t)
                /\ tab' = [tab EXCEPT ![t].pc = "done"]
        /\ UNCHANGED <<last, page, subs, subResult>>

NextConc ==
    \E t \in Tabs :
        \/ TabUpdateLinkActiveState(t)
        \/ TabUpdateLinkData(t)
        \/ TabDeleteLinkById(t)
        \/ TabWrite(t)

SpecConc == InitConc /\ [][NextConc]_vars

\* what the mutation of call c makes of a collection
Effect(c, links) ==
    CASE c.op = "updateLinkActiveState" -> SetActiveMap(links, c.linkId, c.active)
      [] c.op = "updateLinkData" -> SetFieldMap(links, c.linkId, c.field, c.value)
      [] c.op = "deleteLinkById" -> DeleteFilter(links, c.linkId)

\* both callers read before either wrote, both wrote, first before second
Overlapped(first, second) ==
    /\ first # second
    /\ tab[first].pc = "done"
    /\ tab[second].pc = "done"
    /\ tab[first].readAt = 0
    /\ tab[second].readAt = 0
    /\ wrote = <<first, second>>

\* C10: when two mutations of one document both read before either writes
\* and both complete, the stored collection is the second writer's mutation
\* of the collection both read: nothing of the first writer's call is kept.
C10_LastWriteWins ==
    \A first, second \in Tabs :
        Overlapped(first, second) =>
            /\ tab[second].snap = tab[first].snap
            /\ LinksOf(users[TheUser]) = Effect(tab[second], tab[first].snap)

\* a lost update: the first writer changed the collection, both calls
\* completed, and the stored collection lacks the first writer's change
C10_LostUpdate ==
    \E first, second \in Tabs :
        /\ Overlapped(first, second)
        /\ tab[first].upd # tab[first].snap
        /\ Effect(tab[first], LinksOf(users[TheUser])) # LinksOf(users[TheUser])
        /\ LinksOf(users[TheUser]) # Effect(tab[second], tab[first].upd)

---------------------------------------------------------------------------
(* checkSubscriptionStatus *)

SubStatuses == {"trialing", "active", "canceled", "past_due"}
SubRecords == [status : SubStatuses, cancel_at_period_end : BOOLEAN]

\* a query that leaves canceled out of the status filter
SubscriptionQueryNoCanceled(records) ==
    SelectSeq(records, LAMBDA r : r.status \in {"trialing", "active"})

\* the snapshot of where('status', 'in', ['trialing', 'active', 'canceled'])
SubscriptionQuery(records) ==
    SelectSeq(records, LAMBDA r : r.status \in {"trialing", "active", "canceled"})

\* the forEach over the snapshot, from document i on, with the flag so far
RECURSIVE ForEachSubscription(_, _, _)
ForEachSubscription(snapshot, i, hasActiveSubscription) ==
    IF i > Len(snapshot) THEN hasActiveSubscription
    ELSE LET subscription == snapshot[i]
             afterCanceled ==
                IF subscription.status = "canceled"
                   /\ subscription.cancel_at_period_end
                THEN TRUE ELSE hasActiveSubscription
             afterActive ==
                IF subscription.status \in {"trialing", "active"}
                THEN TRUE ELSE afterCanceled
         IN  ForEachSubscription(snapshot, i + 1, afterActive)

\* the value checkSubscriptionStatus returns for the stored records
SubscriptionStatusOf(records) ==
    LET subscriptionSnapshot == SubscriptionQuery(records)
    IN  IF Len(subscriptionSnapshot) = 0 THEN FALSE
        ELSE ForEachSubscription(subscriptionSnapshot, 1, FALSE)

RECURSIVE SeqsUpTo(_, _)
SeqsUpTo(S, n) ==
    IF n = 0 THEN {<<>>}
    ELSE SeqsUpTo(S, n - 1)
         \cup {Append(q, x) : q \in {r \in SeqsUpTo(S, n - 1) : Len(r) = n - 1},
                              x \in S}

InitSub ==
    /\ users = [u \in UIDs |-> NoDoc]
    /\ last = NoCall
    /\ tab = [t \in Tabs |-> IdleTab]
    /\ wrote = <<>>
    /\ page = IdlePage
    /\ subs \in SeqsUpTo(SubRecords, MaxSubs)
    /\ subResult = "none"

CheckSubscriptionStatus ==
    \E fault \in {"none", "read"} :
        /\ subResult = "none"
        /\ subResult' = IF fault = "read" THEN "threw"
                        ELSE BoolStr(SubscriptionStatusOf(subs))
        /\ UNCHANGED <<users, last, tab, wrote, page, subs>>

NextSub == CheckSubscriptionStatus

SpecSub == InitSub /\ [][NextSub]_vars

\* C6: checkSubscriptionStatus returns true exactly when some subscription
\* record is trialing or active, or is canceled with cancel_at_period_end
\* true; with no records, or none that match, it returns false.
C6_SubscriptionStatus ==
    subResult \in {"true", "false"} =>
        (subResult = "true"
            <=> \E i \in 1..Len(subs) :
                    \/ subs[i].status \in {"trialing", "active"}
                    \/ /\ subs[i].status = "canceled"
                       /\ subs[i].cancel_at_period_end)

\* true on the strength of a canceled record alone, beside one that does not count
C6_Witness ==
    /\ subResult = "true"
    /\ Len(subs) = 2
    /\ \A i \in 1..Len(subs) : subs[i].status \notin {"trialing", "active"}
    /\ \E i \in 1..Len(subs) :
            subs[i].status = "canceled" /\ ~subs[i].cancel_at_period_end

---------------------------------------------------------------------------
(* The public page /user/{username} *)

PageUsernames == Usernames \cup {"carol"}

\* fetchUserDataByUsername: the first matching document's data, or null
FetchUserDataByUsername(store, username, fault) ==
    LET matches == {u \in UIDs : store[u].exists /\ store[u].username = username}
    IN  IF fault = "read" \/ matches = {}
        THEN [found |-> FALSE, data |-> NoDoc]
        ELSE [found |-> TRUE, data |-> store[CHOOSE u \in matches : TRUE]]

\* POST /api/get-user-data: { user: UserRecord } | null
ApiGetUserData(store, username, fault) ==
    LET user == FetchUserDataByUsername(store, username, fault)
    IN  [bodyNull |-> ~user.found, body |-> user.data]

InitPage ==
    /\ \E d \in {NoDoc} \cup {SetDocUsername(NoDoc, n) : n \in Usernames \cup {""}} :
            users = [u \in UIDs |-> d]
    /\ last = NoCall
    /\ tab = [t \in Tabs |-> IdleTab]
    /\ wrote = <<>>
    /\ \E username \in PageUsernames :
            page = [IdlePage EXCEPT !.pc = "mounted", !.username = username,
                                    !.view = "loading"]
    /\ subs = <<>>
    /\ subResult = "none"

\* the effect runs: fetch('/api/get-user-data', ...) is sent
PageFetch ==
    /\ page.pc = "mounted"
    /\ page' = [page EXCEPT !.pc = "fetching"]
    /\ UNCHANGED <<users, last, tab, wrote, subs, subResult>>

\* the fetch settles: rejected, answered with a non-ok status, or answered ok
PageResponse ==
    /\ page.pc = "fetching"
    /\ \E status \in {"networkError", "notOk", "ok"}, fault \in {"none", "read"} :
        LET answer == ApiGetUserData(users, page.username, fault)
        IN  page' = IF status = "ok"
                    THEN [page EXCEPT !.pc = "responded", !.status = status,
                                      !.bodyNull = answer.bodyNull,
                                      !.body = answer.body]
                    ELSE [page EXCEPT !.pc = "responded", !.status = status]
    /\ UNCHANGED <<users, last, tab, wrote, subs, subResult>>

\* the rest of fetchUserData: the try body after the fetch, catch and finally.
\* notFound() throws: in the try body it lands in the catch block, which calls
\* it again; thrown from the catch block it rejects the promise of
\* fetchUserData after the finally block has run.
PageHandle ==
    /\ page.pc = "responded"
    /\ page' =
        IF page.status # "ok"
        THEN \* fetch rejected, or !response.ok threw: catch, then finally
             [page EXCEPT !.pc = "settled", !.notFoundCalls = 1,
                          !.rejected = TRUE, !.loading = FALSE]
        ELSE IF page.bodyNull
        THEN \* !data: notFound() in the try body, again in catch, then finally
             [page EXCEPT !.pc = "settled", !.notFoundCalls = 2,
                          !.rejected = TRUE, !.loading = FALSE]
        ELSE \* setUserData(data.user), then finally
             [page EXCEPT !.pc = "settled", !.hasUserData = TRUE,
                          !.userData = page.body, !.loading = FALSE]
    /\ UNCHANGED <<users, last, tab, wrote, subs, subResult>>

\* the render after the state updates: Loading while loading, else the
\* profile markup, which reads userData.photoUrl and userData.username
PageRender ==
    /\ page.pc = "settled"
    /\ page' = [page EXCEPT !.pc = "rendered",
                    !.view = IF page.loading THEN "loading"
                             ELSE IF ~page.hasUserData THEN "typeError"
                             ELSE "profile"]
    /\ UNCHANGED <<users, last, tab, wrote, subs, subResult>>

NextPage ==
    \/ PageFetch
    \/ PageResponse
    \/ PageHandle
    \/ PageRender

SpecPage == InitPage /\ [][NextPage]_vars

\* the answer was null, had a non-ok status, or the fetch failed
NoUserAnswer == page.status \in {"networkError", "notOk"}
                \/ (page.status = "ok" /\ page.bodyNull)

\* C5: when /api/get-user-data answers null, answers with a non-ok status, or
\* the fetch fails, the page ends in not-found and never reaches the profile
\* render (loading = false) with userData still null.
C5_NotFoundOrProfile ==
    (page.pc \in {"settled", "rendered"} /\ NoUserAnswer) =>
        /\ page.notFoundCalls > 0
        /\ ~(page.loading = FALSE /\ ~page.hasUserData)
        /\ page.view # "typeError"

====
